---- MODULE Spec2Model ----
(***************************************************************************)
(* Model of the Server class of entry-hw (src/unnamed/part_000): the relay *)
(* between the hardware process and the Entry workspace.  One action per   *)
(* method or event handler of the class.  The transport libraries          *)
(* (http, socket.io, socket.io-client) are the environment: they deliver   *)
(* the events the handlers are registered for.                             *)
(***************************************************************************)
EXTENDS Integers, Sequences, FiniteSets, TLC

\* ---------------------------------------------------------------- bounds
\* Number of sockets the socket.io server accepts over the whole run.
MaxConns == 2
\* Number of socket.io-client uplinks created over the whole run.
MaxUplinks == 1
\* Number of close() calls over the whole run.
MaxCloses == 1

\* ------------------------------------------------------------- constants
\* reconnectionAttempts option handed to socket.io-client.
ReconnectionAttempts == 3

\* JavaScript's undefined and null.
Undefined == "undefined"
Null == "null"

\* SERVER_MODE_TYPES
SERVER_MODE_TYPES == [single |-> "single", multi |-> "multi",
                      parent |-> "parent", child |-> "child"]

\* Room ids peers and the router supply; Undefined is a missing (falsy) id.
RoomNames == {"r1", "r2"}
RoomInputs == RoomNames \cup {Undefined}

\* Contents router.roomIds may have when a handler reads it.
RouterRoomLists == {<< >>, <<"r1">>, <<"r2", "r1">>, <<Undefined, "r2">>}

\* Socket ids: sockets accepted by the socket.io server, and uplinks.
ConnId(i) == "conn" \o ToString(i)
LinkId(i) == "link" \o ToString(i)
ConnIds == {ConnId(i) : i \in 1..MaxConns}
LinkIds == {LinkId(i) : i \in 1..MaxUplinks}

\* State names setState() is called with; "other" is any other name.
StateNames == {"connecting", "connected", "lost", "disconnected", "other"}

\* ------------------------------------------------------------- variables
VARIABLES
    runningMode,        \* this.runningMode
    currentServerMode,  \* this.currentServerMode
    masterRoomIds,      \* this.masterRoomIds (array)
    socketClient,       \* this.socketClient: Undefined, Null or an uplink id
    socketServer,       \* this.socketServer is set
    httpServer,         \* this.httpServer is set (this process holds the port)
    connections,        \* this.connections (array of socket ids)
    connectionSet,      \* keys of this.connectionSet
    childServerList,    \* keys of this.childServerList
    clientTargetList,   \* this.clientTargetList: room -> socket id or Undefined
    packet,             \* this.packet (4 bytes)
    state,              \* this.state
    conns,              \* sockets of the current socket.io server: id -> fields
    accepted,           \* number of sockets accepted over the whole run
    uplinks,            \* uplinks created so far: id -> status of the socket
    openPending,        \* open() calls whose listen() has not reported yet
    lifecycle,          \* "new", "open" (after open()), "closed" (after close())
    closes,             \* number of close() calls so far
    out,                \* what the last handler did to its collaborators
    fetch               \* the module fetch _requestHardware() started last

vars == <<runningMode, currentServerMode, masterRoomIds, socketClient, socketServer, httpServer, connections, connectionSet,
          childServerList, clientTargetList, packet, state, conns, accepted,
          uplinks, openPending, lifecycle, closes, out, fetch>>

\* --------------------------------------------------------------- helpers
Range(s) == {s[i] : i \in DOMAIN s}

\* if (arr.indexOf(x) === -1) arr.push(x)
PushIfAbsent(arr, x) == IF x \in Range(arr) THEN arr ELSE Append(arr, x)

\* JavaScript truthiness of a room id.
Truthy(x) == x # Undefined

\* What a handler did: calls of router.handleServerData, events emitted
\* (event, target), live sockets an emitted 'message' or 'matched' reaches,
\* the packet handed to send(), whether a module fetch was started, whether
\* the handler threw, the data.roomId of a 'matchTarget', the values the
\* acknowledgment callback was called with.
NoMessage == [action |-> "none", parses |-> TRUE, mode |-> "none",
              ack |-> FALSE, key |-> Undefined, name |-> Undefined]
NoOut(op) == [op |-> op, conn |-> "none", msg |-> NoMessage, local |-> 0,
              emits |-> {}, delivered |-> {}, sent |-> << >>, fetch |-> FALSE,
              threw |-> FALSE, room |-> "none", acked |-> << >>]

\* Values of message.key: absent, or a key of the sender.
MessageKeys == {Undefined, "k1"}

\* The name in the data of an 'init' message: absent, or a module name.
ModuleNames == {Undefined, "m1"}

\* Inbound messages: message.action is 'init' or not, JSON.parse(message.data)
\* with the destructuring of its result succeeds or throws (read for 'init'
\* only), message.mode, whether the sender passed an acknowledgment callback,
\* message.key, the name in the parsed data (read for 'init' only).
MessageInputs ==
    {m \in [action : {"init", "data"}, parses : BOOLEAN,
            mode : {SERVER_MODE_TYPES.single, SERVER_MODE_TYPES.multi},
            ack : BOOLEAN, key : MessageKeys, name : ModuleNames] :
        /\ m.action = "init" \/ m.parses
        /\ m.name # Undefined => (m.action = "init" /\ m.parses)}

\* The messages whose 'init' data, when it parses, names a module.
AckMessages ==
    {m \in MessageInputs : (m.action = "init" /\ m.parses) => m.name # Undefined}

\* Of those, the messages sent without an acknowledgment callback and key.
Messages == {m \in AckMessages : ~m.ack /\ m.key = Undefined}

\* The messages sent without an acknowledgment callback and key, whatever
\* the name in their data.
FetchMessages == {m \in MessageInputs : ~m.ack /\ m.key = Undefined}

\* const { key = true } = message: the value handed to ack().
AckKey(message) == IF message.key = Undefined THEN "true" ELSE message.key

\* Live sockets of the socket.io server that are in the room named `room`:
\* a room id holds the sockets that joined it, a socket id holds that socket.
Members(room, cs) ==
    {c \in DOMAIN cs : cs[c].live /\
        (c = room \/ (~cs[c].childServer /\ Truthy(room) /\ cs[c].roomId = room))}

\* A module fetch: the moduleName, where the request stands, the status code
\* of the response (0: none yet), whether the unpack stream reported 'done',
\* whether the response reported 'error', the promise handed to the caller,
\* the calls made on the router, whether the readFile callback threw.
NoFetch == [name |-> Undefined, status |-> "none", response |-> 0,
            unpacked |-> FALSE, streamError |-> FALSE, promise |-> "none",
            calls |-> << >>, threw |-> FALSE]

\* ----------------------------------------------------------------- Init
Init ==
    /\ runningMode = SERVER_MODE_TYPES.parent
    /\ currentServerMode = SERVER_MODE_TYPES.single
    /\ masterRoomIds = << >>
    /\ socketClient = Undefined
    /\ socketServer = FALSE
    /\ httpServer = FALSE
    /\ connections = << >>
    /\ connectionSet = {}
    /\ childServerList = {}
    /\ clientTargetList = [r \in RoomNames |-> Undefined]
    /\ packet = <<1, 0, 0, 0>>
    /\ state = Undefined
    /\ conns = << >>
    /\ accepted = 0
    /\ uplinks = << >>
    /\ openPending = 0
    /\ lifecycle = "new"
    /\ closes = 0
    /\ out = NoOut("constructor")
    /\ fetch = NoFetch

\* ------------------------------------------------------ Transport Opener
\* Mutant of MergeRoomIds: the router's room ids replace masterRoomIds.
ReplaceRoomIds(master, list) == SelectSeq(list, Truthy)

\* roomIds.forEach(id => { if (masterRoomIds.indexOf(id) === -1 && id) push })
RECURSIVE MergeRoomIds(_, _)
MergeRoomIds(master, list) ==
    IF list = << >> THEN master
    ELSE MergeRoomIds(IF Truthy(Head(list)) THEN PushIfAbsent(master, Head(list))
                      ELSE master,
                      Tail(list))

\* toggleServerMode(mode)
toggleServerMode(mode) == currentServerMode' = mode

\* open(), called by the owner of the Server: create the http server, register
\* the two handlers, listen().  The outcome arrives as BindListening or
\* BindError.  The owner opens a new or a closed Server.
Open ==
    /\ lifecycle \in {"new", "closed"}
    /\ openPending = 0
    /\ openPending' = openPending + 1
    /\ lifecycle' = "open"
    /\ out' = NoOut("idle")
    /\ UNCHANGED <<runningMode, currentServerMode, masterRoomIds, socketClient, socketServer, httpServer, connections,
                   connectionSet, childServerList, clientTargetList, packet,
                   state, conns, uplinks,
                   accepted, closes, fetch>>

\* httpServer 'listening': the port was free (this process did not hold it).
BindListening ==
    /\ openPending > 0
    /\ ~httpServer
    /\ \E list \in RouterRoomLists :
          masterRoomIds' = MergeRoomIds(masterRoomIds, list)
    /\ runningMode' = SERVER_MODE_TYPES.parent
    /\ httpServer' = TRUE
    /\ socketServer' = TRUE
    /\ openPending' = openPending - 1
    /\ out' = NoOut("idle")
    /\ UNCHANGED <<currentServerMode, socketClient, connections,
                   connectionSet, childServerList, clientTargetList, packet,
                   state, conns, uplinks, lifecycle,
                   accepted, closes, fetch>>

\* httpServer 'error': the port is taken; become a child server and link to
\* the server that holds the port.
BindError ==
    /\ openPending > 0
    /\ Cardinality(DOMAIN uplinks) < MaxUplinks
    /\ LET socket == LinkId(Cardinality(DOMAIN uplinks) + 1) IN
          /\ runningMode' = SERVER_MODE_TYPES.child
          /\ toggleServerMode(SERVER_MODE_TYPES.multi)
          /\ uplinks' = uplinks @@ (socket :> [status |-> "connecting", attempts |-> 0])
          /\ connections' = Append(connections, socket)
          /\ socketClient' = socket
    /\ openPending' = openPending - 1
    /\ out' = NoOut("idle")
    /\ UNCHANGED <<masterRoomIds, socketServer, httpServer,
                   connectionSet, childServerList, clientTargetList, packet,
                   state, conns, lifecycle,
                   accepted, closes, fetch>>

\* ------------------------------------------------------ uplink (child role)
\* A connection attempt of the uplink fails and the budget is not used up:
\* socket.io-client schedules the next reconnection attempt.  No handler runs.
UplinkConnectError(u) ==
    /\ u \in DOMAIN uplinks
    /\ uplinks[u].status = "connecting"
    /\ uplinks[u].attempts < ReconnectionAttempts
    /\ uplinks' = [uplinks EXCEPT ![u].attempts = @ + 1]
    /\ out' = NoOut("idle")
    /\ UNCHANGED <<runningMode, currentServerMode, masterRoomIds, socketClient, socketServer, httpServer, connections,
                   connectionSet, childServerList, clientTargetList, packet,
                   state, conns, openPending, lifecycle,
                   accepted, closes, fetch>>

\* socket 'connect': claim every room the router knows.
UplinkConnect(u) ==
    /\ u \in DOMAIN uplinks
    /\ uplinks[u].status = "connecting"
    /\ uplinks' = [uplinks EXCEPT ![u].status = "connected"]
    /\ \E list \in RouterRoomLists :
          /\ masterRoomIds' = MergeRoomIds(masterRoomIds, list)
          /\ out' = [NoOut("connect") EXCEPT
                        !.conn = u,
                        !.emits = {<<"matchTarget", r>> : r \in Range(list) \ {Undefined}}]
    /\ UNCHANGED <<runningMode, currentServerMode, socketClient,
                   socketServer, httpServer, connections, connectionSet,
                   childServerList, clientTargetList, packet, state, conns,
                   openPending, lifecycle,
                   accepted, closes, fetch>>

\* Mutant of Demote: the handlers without this.open().
DemoteWithoutOpen(u) ==
    /\ uplinks' = [uplinks EXCEPT ![u].status = "closed"]
    /\ socketClient' = Null
    /\ UNCHANGED <<runningMode, masterRoomIds, socketServer,
                   httpServer, connections, connectionSet, childServerList,
                   clientTargetList, packet, state, conns, lifecycle,
                   accepted, closes, fetch, openPending>>

\* The part the two demotion handlers share: socket.close(),
\* this.socketClient = null, this.open().
Demote(u) ==
    /\ uplinks' = [uplinks EXCEPT ![u].status = "closed"]
    /\ socketClient' = Null
    /\ openPending' = openPending + 1
    /\ UNCHANGED <<runningMode, masterRoomIds, socketServer,
                   httpServer, connections, connectionSet, childServerList,
                   clientTargetList, packet, state, conns, lifecycle,
                   accepted, closes, fetch>>

\* Mutant of UplinkReconnectFailed: the handler without toggleServerMode.
UplinkReconnectFailedKeepsMode(u) ==
    /\ u \in DOMAIN uplinks
    /\ uplinks[u].status = "connecting"
    /\ uplinks[u].attempts = ReconnectionAttempts
    /\ UNCHANGED currentServerMode
    /\ Demote(u)
    /\ out' = NoOut("idle")

\* socket 'reconnect_failed': the last of the ReconnectionAttempts failed.
UplinkReconnectFailed(u) ==
    /\ u \in DOMAIN uplinks
    /\ uplinks[u].status = "connecting"
    /\ uplinks[u].attempts = ReconnectionAttempts
    /\ toggleServerMode(SERVER_MODE_TYPES.single)
    /\ Demote(u)
    /\ out' = NoOut("idle")

\* socket 'disconnect': the server dropped the established link.
UplinkDisconnect(u) ==
    /\ u \in DOMAIN uplinks
    /\ uplinks[u].status = "connected"
    /\ UNCHANGED currentServerMode
    /\ Demote(u)
    /\ out' = NoOut("idle")

\* ------------------------------------------------------ State Broadcaster
\* Mutant of StateCode: the codes of 'lost' and 'disconnected' swapped.
StateCodeSwapped(s) ==
    CASE s = "connecting" -> 1
      [] s = "connected" -> 2
      [] s = "lost" -> 4
      [] s = "disconnected" -> 3
      [] OTHER -> 0

\* The 4th byte setState() writes for a state name; 0 for a name it ignores.
StateCode(s) ==
    CASE s = "connecting" -> 1
      [] s = "connected" -> 2
      [] s = "lost" -> 3
      [] s = "disconnected" -> 4
      [] OTHER -> 0

\* setState() acts only when this.connections is not empty and the name is known.
SetStateActs(s, connList) == Len(connList) > 0 /\ StateCode(s) # 0

\* this.packet after setState(s).
PacketAfter(pkt, s, connList) ==
    IF SetStateActs(s, connList) THEN [pkt EXCEPT ![4] = StateCode(s)] ELSE pkt

\* Mutant of SendDirect: the parent always emits on its sockets.
SendDirectAnyParent(rm, children) ==
    \/ rm = SERVER_MODE_TYPES.parent
    \/ rm = SERVER_MODE_TYPES.child

\* send(): the first branch emits on every socket of this.connections.
SendDirect(rm, children) ==
    \/ (rm = SERVER_MODE_TYPES.parent /\ Cardinality(children) = 0)
    \/ rm = SERVER_MODE_TYPES.child

\* send(): the (event, target) pairs it emits.
SendEmits(rm, children, connList, master, server) ==
    IF SendDirect(rm, children)
    THEN {<<"message", c>> : c \in Range(connList)}
    ELSE IF Len(master) > 0 /\ server
         THEN {<<"message", r>> : r \in Range(master)}
         ELSE {}

\* send(): this.socketServer.to(...) on an undefined socketServer throws.
SendThrows(rm, children, master, server) ==
    ~SendDirect(rm, children) /\ Len(master) > 0 /\ ~server

\* send(): the live sockets the payload reaches: in the first branch the
\* sockets of this.connections that are still connected, in the second the
\* sockets in the rooms of this.masterRoomIds.
SendDelivered(rm, children, connList, master, server, cs, ups) ==
    IF SendDirect(rm, children)
    THEN {c \in Range(connList) :
            \/ (c \in DOMAIN cs /\ cs[c].live)
            \/ (c \in DOMAIN ups /\ ups[c].status = "connected")}
    ELSE IF Len(master) > 0 /\ server
         THEN UNION {Members(r, cs) : r \in Range(master)}
         ELSE {}

\* What setState(s) adds to the record of the running handler.
SetStateOut(o, s, pkt, rm, children, connList, master, server, cs, ups) ==
    IF SetStateActs(s, connList)
    THEN [o EXCEPT !.sent = PacketAfter(pkt, s, connList),
                   !.emits = @ \cup SendEmits(rm, children, connList, master, server),
                   !.delivered = SendDelivered(rm, children, connList, master,
                                               server, cs, ups),
                   !.threw = SendThrows(rm, children, master, server)]
    ELSE o

\* setState(state), called by the owner of the Server.
SetState(s) ==
    /\ state' = s
    /\ packet' = PacketAfter(packet, s, connections)
    /\ out' = SetStateOut(NoOut("setState"), s, packet, runningMode,
                          childServerList, connections, masterRoomIds,
                          socketServer, conns, uplinks)
    /\ UNCHANGED <<runningMode, currentServerMode, masterRoomIds, socketClient, socketServer, httpServer, connections,
                   connectionSet, childServerList, clientTargetList, conns,
                   uplinks, openPending, lifecycle,
                   accepted, closes, fetch>>

\* disconnectHardware(), called by the owner of the Server: send() of the
\* 'disconnectHardware' state payload.
disconnectHardware ==
    /\ out' = [NoOut("disconnectHardware") EXCEPT
                  !.emits = SendEmits(runningMode, childServerList, connections,
                                      masterRoomIds, socketServer),
                  !.delivered = SendDelivered(runningMode, childServerList,
                                              connections, masterRoomIds,
                                              socketServer, conns, uplinks),
                  !.threw = SendThrows(runningMode, childServerList,
                                       masterRoomIds, socketServer)]
    /\ UNCHANGED <<runningMode, currentServerMode, masterRoomIds, socketClient,
                   socketServer, httpServer, connections, connectionSet,
                   childServerList, clientTargetList, packet, state, conns,
                   uplinks, openPending, lifecycle, accepted, closes, fetch>>

\* ---------------------------------------------------- Connection Registry
\* currentServerMode after the connection handler recomputed it.
ModeFor(children) ==
    IF Cardinality(children) > 0 THEN SERVER_MODE_TYPES.multi
    ELSE SERVER_MODE_TYPES.single

\* server 'connection': a socket with handshake.query {childServer, roomId}.
\* The handler ends with this.setState(this.state).
Connect(child, roomId) ==
    /\ socketServer
    /\ accepted < MaxConns
    /\ accepted' = accepted + 1
    /\ LET connection == ConnId(accepted + 1)
           children == IF child THEN childServerList \cup {connection}
                       ELSE childServerList
           connList == Append(connections, connection)
           cs == conns @@ (connection :>
                  [childServer |-> child,
                   roomId |-> IF child THEN Undefined ELSE roomId,
                   roomIds |-> << >>,
                   live |-> TRUE])
       IN  /\ connectionSet' = connectionSet \cup {connection}
           /\ connections' = connList
           /\ childServerList' = children
           /\ conns' = cs
           /\ toggleServerMode(ModeFor(children))
           /\ packet' = PacketAfter(packet, state, connList)
           /\ out' = SetStateOut(
                  [NoOut("connection") EXCEPT !.conn = connection,
                                              !.emits = {<<"mode", "all">>}],
                  state, packet, runningMode, children, connList,
                  masterRoomIds, socketServer, cs, uplinks)
    /\ UNCHANGED <<runningMode, masterRoomIds, socketClient,
                   socketServer, httpServer, clientTargetList, state, uplinks,
                   openPending, lifecycle, closes, fetch>>

\* Mutant of MatchTarget: a claim is taken from any socket.
MatchTargetFromAnyone(c, roomId) ==
    /\ c \in DOMAIN conns
    /\ conns[c].live
    /\ IF Truthy(roomId)
       THEN /\ conns' = [conns EXCEPT ![c].roomIds = PushIfAbsent(@, roomId)]
            /\ clientTargetList' = [clientTargetList EXCEPT ![roomId] = c]
            /\ out' = [NoOut("matchTarget") EXCEPT !.conn = c,
                          !.room = roomId,
                          !.emits = {<<"matched", roomId>>},
                          !.delivered = Members(roomId, conns)]
       ELSE /\ UNCHANGED <<conns, clientTargetList>>
            /\ out' = [NoOut("matchTarget") EXCEPT !.conn = c, !.room = roomId]
    /\ UNCHANGED <<runningMode, currentServerMode, masterRoomIds, socketClient,
                   socketServer, httpServer, connections, connectionSet,
                   childServerList, packet, state, uplinks, openPending,
                   lifecycle, accepted, closes, fetch>>

\* connection 'matchTarget' with data.roomId.  connection.roomIds undefined is
\* kept as the empty sequence: every read of it treats the two alike.
MatchTarget(c, roomId) ==
    /\ c \in DOMAIN conns
    /\ conns[c].live
    /\ IF conns[c].childServer /\ Truthy(roomId)
       THEN /\ conns' = [conns EXCEPT ![c].roomIds = PushIfAbsent(@, roomId)]
            /\ clientTargetList' = [clientTargetList EXCEPT ![roomId] = c]
            /\ out' = [NoOut("matchTarget") EXCEPT !.conn = c,
                          !.room = roomId,
                          !.emits = {<<"matched", roomId>>},
                          !.delivered = Members(roomId, conns)]
       ELSE /\ UNCHANGED <<conns, clientTargetList>>
            /\ out' = [NoOut("matchTarget") EXCEPT !.conn = c, !.room = roomId]
    /\ UNCHANGED <<runningMode, currentServerMode, masterRoomIds, socketClient, socketServer, httpServer, connections,
                   connectionSet, childServerList, packet, state, uplinks,
                   openPending, lifecycle, accepted, closes, fetch>>

\* The body of the connection 'disconnect' handler; `run` names the run in out.
onDisconnect(c, run) ==
    IF conns[c].childServer
    THEN LET children == childServerList \ {c} IN
         /\ connectionSet' = connectionSet \ {c}
         /\ childServerList' = children
         /\ IF Cardinality(children) <= 0
            THEN toggleServerMode(SERVER_MODE_TYPES.single)
            ELSE UNCHANGED currentServerMode
         /\ out' = [NoOut(run) EXCEPT !.conn = c,
                       !.emits = {<<"matching", r>> : r \in Range(conns[c].roomIds)}
                                 \cup (IF Cardinality(children) <= 0
                                       THEN {<<"mode", "all">>} ELSE {})]
    ELSE /\ connectionSet' = connectionSet \ {c}
         /\ UNCHANGED <<childServerList, currentServerMode>>
         /\ out' = [NoOut(run) EXCEPT !.conn = c]

\* connection 'disconnect': the transport lost the socket (it has left its rooms).
Disconnect(c) ==
    /\ c \in DOMAIN conns
    /\ conns[c].live
    /\ conns' = [conns EXCEPT ![c].live = FALSE]
    /\ onDisconnect(c, "disconnect")
    /\ UNCHANGED <<runningMode, masterRoomIds, socketClient,
                   socketServer, httpServer, connections, clientTargetList,
                   packet, state, uplinks, openPending, lifecycle,
                   accepted, closes, fetch>>

\* The 'disconnect' handler of a socket run a second time, after the socket
\* has gone (the double disconnect of the connection registry's contract).
Redisconnect(c) ==
    /\ c \in DOMAIN conns
    /\ ~conns[c].live
    /\ onDisconnect(c, "redisconnect")
    /\ UNCHANGED <<runningMode, masterRoomIds, socketClient, socketServer,
                   httpServer, connections, clientTargetList, packet, state,
                   conns, uplinks, openPending, lifecycle, accepted, closes, fetch>>

\* closeSingleConnection(connection): this.connections after the call.  The
\* call uses slice(), which returns a copy and leaves the array as it was.
closeSingleConnection(connList, connection) == connList

\* connection 'close': emit 'close' and call closeSingleConnection(this) with
\* the Server itself, which is no entry of this.connections.
ConnectionClose(c) ==
    /\ c \in DOMAIN conns
    /\ connections' = closeSingleConnection(connections, "server")
    /\ out' = [NoOut("connectionClose") EXCEPT !.conn = c]
    /\ UNCHANGED <<runningMode, currentServerMode, masterRoomIds, socketClient,
                   socketServer, httpServer, connectionSet, childServerList,
                   clientTargetList, packet, state, conns, uplinks, openPending,
                   lifecycle, accepted, closes, fetch>>

\* ------------------------------------------- Hardware-Module Fetch Coordinator
\* A promise settles once: reject() and resolve() on a settled promise do nothing.
Settle(promise, how) == IF promise = "pending" THEN how ELSE promise

\* _requestHardware(moduleName) up to request.end(): the fetch it starts.
requestHardware(moduleName) ==
    IF ~Truthy(moduleName)
    THEN [NoFetch EXCEPT !.status = "ended", !.promise = "rejected"]
    ELSE [NoFetch EXCEPT !.name = moduleName, !.status = "requested",
                         !.promise = "pending"]

\* request 'response' with response.statusCode.
FetchResponse(statusCode) ==
    /\ fetch.status = "requested"
    /\ fetch' = IF statusCode = 200
                THEN [fetch EXCEPT !.response = statusCode, !.status = "piping"]
                ELSE [fetch EXCEPT !.response = statusCode, !.status = "ended",
                                   !.promise = Settle(@, "rejected")]
    /\ out' = NoOut("idle")
    /\ UNCHANGED <<runningMode, currentServerMode, masterRoomIds, socketClient,
                   socketServer, httpServer, connections, connectionSet,
                   childServerList, clientTargetList, packet, state, conns,
                   uplinks, openPending, lifecycle, accepted, closes>>

\* response 'error' while the body is piped into the unpack stream.
FetchResponseError ==
    /\ fetch.status = "piping"
    /\ fetch' = [fetch EXCEPT !.streamError = TRUE, !.status = "ended",
                              !.promise = Settle(@, "rejected")]
    /\ out' = NoOut("idle")
    /\ UNCHANGED <<runningMode, currentServerMode, masterRoomIds, socketClient,
                   socketServer, httpServer, connections, connectionSet,
                   childServerList, clientTargetList, packet, state, conns,
                   uplinks, openPending, lifecycle, accepted, closes>>

\* zipStream 'done': start fs.readFile of the module's json, then resolve().
FetchZipDone ==
    /\ fetch.status = "piping"
    /\ fetch' = [fetch EXCEPT !.unpacked = TRUE, !.status = "reading",
                              !.promise = Settle(@, "resolved")]
    /\ out' = NoOut("idle")
    /\ UNCHANGED <<runningMode, currentServerMode, masterRoomIds, socketClient,
                   socketServer, httpServer, connections, connectionSet,
                   childServerList, clientTargetList, packet, state, conns,
                   uplinks, openPending, lifecycle, accepted, closes>>

\* The fs.readFile callback: JSON.parse(data), router.sendState('show_robot'),
\* router.startScan().  JSON.parse throws when the file could not be read
\* (data is undefined) or does not hold JSON.
FetchReadFile(parses) ==
    /\ fetch.status = "reading"
    /\ fetch' = IF parses
                THEN [fetch EXCEPT !.status = "ended",
                                   !.calls = <<"show_robot", "startScan">>]
                ELSE [fetch EXCEPT !.status = "ended", !.threw = TRUE]
    /\ out' = NoOut("idle")
    /\ UNCHANGED <<runningMode, currentServerMode, masterRoomIds, socketClient,
                   socketServer, httpServer, connections, connectionSet,
                   childServerList, clientTargetList, packet, state, conns,
                   uplinks, openPending, lifecycle, accepted, closes>>

\* --------------------------------------------------------- Message Router
\* Mutant of Message: a forwarded message uses up the entry of
\* clientTargetList it was forwarded by.
MessageConsumesTarget(c, message) ==
    /\ c \in DOMAIN conns
    /\ conns[c].live
    /\ message.action # "init"
    /\ message.mode # SERVER_MODE_TYPES.single
    /\ ~conns[c].childServer
    /\ conns[c].roomId \in RoomNames \ Range(masterRoomIds)
    /\ clientTargetList[conns[c].roomId] # Undefined
    /\ out' = [NoOut("message") EXCEPT
                  !.conn = c, !.msg = message,
                  !.emits = {<<"message", clientTargetList[conns[c].roomId]>>},
                  !.delivered = Members(clientTargetList[conns[c].roomId], conns)]
    /\ clientTargetList' = [clientTargetList EXCEPT ![conns[c].roomId] = Undefined]
    /\ UNCHANGED <<runningMode, currentServerMode, masterRoomIds, socketClient,
                   socketServer, httpServer, connections, connectionSet,
                   childServerList, packet, state, conns, uplinks, openPending,
                   lifecycle, accepted, closes, fetch>>

\* connection 'message'.  An 'init' message whose data does not parse makes
\* JSON.parse throw before the routing decision.
Message(c, message) ==
    /\ c \in DOMAIN conns
    /\ conns[c].live
    /\ fetch' = IF message.action = "init" /\ message.parses
                THEN requestHardware(message.name)
                ELSE fetch
    /\ LET o == [NoOut("message") EXCEPT !.conn = c, !.msg = message] IN
       IF message.action = "init" /\ ~message.parses
       THEN out' = [o EXCEPT !.threw = TRUE]
       ELSE LET o1 == [o EXCEPT !.fetch = (message.action = "init"),
                                !.acked = IF message.ack THEN <<AckKey(message)>>
                                          ELSE << >>] IN
            IF \/ message.mode = SERVER_MODE_TYPES.single
               \/ conns[c].roomId \in Range(masterRoomIds)
            THEN out' = [o1 EXCEPT !.local = 1]
            ELSE IF conns[c].childServer
                 THEN out' = [o1 EXCEPT
                         !.emits = {<<"message", r>> : r \in Range(conns[c].roomIds)},
                         !.delivered = UNION {Members(r, conns) :
                                                 r \in Range(conns[c].roomIds)}]
                 ELSE IF /\ conns[c].roomId \in RoomNames
                         /\ clientTargetList[conns[c].roomId] # Undefined
                      THEN out' = [o1 EXCEPT
                              !.emits = {<<"message", clientTargetList[conns[c].roomId]>>},
                              !.delivered = Members(clientTargetList[conns[c].roomId], conns)]
                      ELSE out' = o1
    /\ UNCHANGED <<runningMode, currentServerMode, masterRoomIds, socketClient, socketServer, httpServer, connections,
                   connectionSet, childServerList, clientTargetList, packet,
                   state, conns, uplinks, openPending, lifecycle,
                   accepted, closes>>

\* ------------------------------------------------------------ owner calls
\* addRoomIdsOnSecondInstance(roomId)
addRoomIdsOnSecondInstance(roomId) ==
    /\ IF runningMode = SERVER_MODE_TYPES.parent
       THEN /\ masterRoomIds' = PushIfAbsent(masterRoomIds, roomId)
            /\ out' = NoOut("addRoomIds")
       ELSE IF Truthy(roomId)
            THEN /\ masterRoomIds' = PushIfAbsent(masterRoomIds, roomId)
                 /\ out' = [NoOut("addRoomIds") EXCEPT
                               !.emits = IF socketClient \in {Undefined, Null}
                                         THEN {}
                                         ELSE {<<"matchTarget", roomId>>}]
            ELSE /\ UNCHANGED masterRoomIds
                 /\ out' = NoOut("addRoomIds")
    /\ UNCHANGED <<runningMode, currentServerMode, socketClient, socketServer,
                   httpServer, connections, connectionSet, childServerList,
                   clientTargetList, packet, state, conns, uplinks, openPending,
                   lifecycle,
                   accepted, closes, fetch>>

\* Mutant of Close: the sockets of the closed server run no 'disconnect'
\* handler.
CloseWithoutDisconnects ==
    /\ lifecycle = "open"
    /\ closes < MaxCloses
    /\ closes' = closes + 1
    /\ conns' = << >>
    /\ out' = NoOut("close")
    /\ socketServer' = FALSE
    /\ httpServer' = FALSE
    /\ connections' = << >>
    /\ lifecycle' = "closed"
    /\ UNCHANGED <<runningMode, currentServerMode, masterRoomIds, socketClient,
                   connectionSet, childServerList, clientTargetList, packet,
                   state, uplinks, openPending, accepted, fetch>>

\* close(), called by the owner of an opened Server.  socketServer.close()
\* disconnects every socket of the server, and each runs its 'disconnect'
\* handler: the sockets leave connectionSet and childServerList, and the last
\* child server to go switches the mode to single.  The sockets of the closed
\* server raise no further event, so conns forgets them.
Close ==
    /\ lifecycle = "open"
    /\ closes < MaxCloses
    /\ closes' = closes + 1
    /\ LET open == {c \in DOMAIN conns : conns[c].live}
           children == {c \in open : conns[c].childServer}
       IN  /\ conns' = << >>
           /\ connectionSet' = connectionSet \ open
           /\ childServerList' = childServerList \ open
           /\ IF socketServer /\ children # {}
              THEN toggleServerMode(SERVER_MODE_TYPES.single)
              ELSE UNCHANGED currentServerMode
           /\ out' = [NoOut("close") EXCEPT
                  !.emits = {<<"matching", r>> :
                                r \in UNION {Range(conns[c].roomIds) : c \in children}}]
    /\ socketServer' = FALSE
    /\ httpServer' = FALSE
    /\ connections' = << >>
    /\ lifecycle' = "closed"
    /\ UNCHANGED <<runningMode, masterRoomIds, socketClient,
                   clientTargetList, packet, state, uplinks, openPending,
                   accepted, fetch>>

\* ---------------------------------------------------------- specifications
\* The whole Server: every handler and every call of its owner.
Next ==
    \/ Open
    \/ BindListening
    \/ BindError
    \/ \E u \in LinkIds : UplinkConnectError(u)
    \/ \E u \in LinkIds : UplinkConnect(u)
    \/ \E u \in LinkIds : UplinkReconnectFailed(u)
    \/ \E u \in LinkIds : UplinkDisconnect(u)
    \/ \E child \in BOOLEAN, roomId \in RoomInputs : Connect(child, roomId)
    \/ \E c \in ConnIds, roomId \in RoomInputs : MatchTarget(c, roomId)
    \/ \E c \in ConnIds : Disconnect(c)
    \/ \E c \in ConnIds : ConnectionClose(c)
    \/ \E c \in ConnIds, message \in MessageInputs : Message(c, message)
    \/ \E roomId \in RoomInputs : addRoomIdsOnSecondInstance(roomId)
    \/ \E s \in StateNames : SetState(s)
    \/ disconnectHardware
    \/ \E statusCode \in {200, 404} : FetchResponse(statusCode)
    \/ FetchResponseError
    \/ FetchZipDone
    \/ \E parses \in BOOLEAN : FetchReadFile(parses)
    \/ Close

Spec == Init /\ [][Next]_vars

\* Role and failover: the opener, the uplink, the sockets that decide the
\* display mode, the owner's room ids and close().
NextFailover ==
    \/ Open
    \/ BindListening
    \/ BindError
    \/ \E u \in LinkIds : UplinkConnectError(u)
    \/ \E u \in LinkIds : UplinkConnect(u)
    \/ \E u \in LinkIds : UplinkReconnectFailed(u)
    \/ \E u \in LinkIds : UplinkDisconnect(u)
    \/ \E child \in BOOLEAN, roomId \in RoomInputs : Connect(child, roomId)
    \/ \E c \in ConnIds : Disconnect(c)
    \/ \E roomId \in RoomInputs : addRoomIdsOnSecondInstance(roomId)
    \/ Close

SpecFailover == Init /\ [][NextFailover]_vars

\* The Server as parent: the port is free whenever it opens.
NextHub ==
    \/ Open
    \/ BindListening
    \/ \E child \in BOOLEAN, roomId \in RoomInputs : Connect(child, roomId)
    \/ \E c \in ConnIds, roomId \in RoomInputs : MatchTarget(c, roomId)
    \/ \E c \in ConnIds : Disconnect(c)
    \/ \E c \in ConnIds, message \in Messages : Message(c, message)
    \/ \E roomId \in RoomInputs : addRoomIdsOnSecondInstance(roomId)
    \/ Close

SpecHub == Init /\ [][NextHub]_vars

\* The parent's registry when the transport may report a disconnect twice.
NextRedisconnect ==
    \/ Open
    \/ BindListening
    \/ \E child \in BOOLEAN, roomId \in RoomInputs : Connect(child, roomId)
    \/ \E c \in ConnIds, roomId \in RoomInputs : MatchTarget(c, roomId)
    \/ \E c \in ConnIds : Disconnect(c)
    \/ \E c \in ConnIds : Redisconnect(c)
    \/ Close

SpecRedisconnect == Init /\ [][NextRedisconnect]_vars

\* The state broadcaster in either role.
NextState ==
    \/ Open
    \/ BindListening
    \/ BindError
    \/ \E child \in BOOLEAN, roomId \in RoomInputs : Connect(child, roomId)
    \/ \E c \in ConnIds : Disconnect(c)
    \/ \E s \in StateNames : SetState(s)
    \/ Close

SpecState == Init /\ [][NextState]_vars

\* Role and failover without the parent-side sockets.
NextLink ==
    \/ Open
    \/ BindListening
    \/ BindError
    \/ \E u \in LinkIds : UplinkConnectError(u)
    \/ \E u \in LinkIds : UplinkConnect(u)
    \/ \E u \in LinkIds : UplinkReconnectFailed(u)
    \/ \E u \in LinkIds : UplinkDisconnect(u)
    \/ \E roomId \in RoomInputs : addRoomIdsOnSecondInstance(roomId)
    \/ Close

SpecLink == Init /\ [][NextLink]_vars

\* The same with the scheduling of the http server: listen() reports one of
\* 'listening' and 'error' for every open().
SpecLinkFair == SpecLink /\ WF_vars(BindListening \/ BindError)

\* Every operation that runs while room ids are collected; the sockets of
\* the parent all name room r1 and the child servers all claim room r2.
NextRooms ==
    \/ Open
    \/ BindListening
    \/ BindError
    \/ \E u \in LinkIds : UplinkConnectError(u)
    \/ \E u \in LinkIds : UplinkConnect(u)
    \/ \E u \in LinkIds : UplinkReconnectFailed(u)
    \/ \E u \in LinkIds : UplinkDisconnect(u)
    \/ \E child \in BOOLEAN : Connect(child, "r1")
    \/ \E c \in ConnIds : MatchTarget(c, "r2")
    \/ \E c \in ConnIds : Disconnect(c)
    \/ \E c \in ConnIds, message \in Messages : Message(c, message)
    \/ \E roomId \in RoomInputs : addRoomIdsOnSecondInstance(roomId)
    \/ Close

SpecRooms == Init /\ [][NextRooms]_vars

\* send() in either role: the owner's room ids, the sockets, the uplink and
\* its drop, setState(), disconnectHardware() and close().
NextSend ==
    \/ Open
    \/ BindListening
    \/ BindError
    \/ \E u \in LinkIds : UplinkConnect(u)
    \/ \E u \in LinkIds : UplinkDisconnect(u)
    \/ \E child \in BOOLEAN, roomId \in RoomInputs : Connect(child, roomId)
    \/ \E c \in ConnIds : Disconnect(c)
    \/ \E c \in ConnIds : ConnectionClose(c)
    \/ \E roomId \in RoomInputs : addRoomIdsOnSecondInstance(roomId)
    \/ \E s \in {"connected", "other"} : SetState(s)
    \/ disconnectHardware
    \/ Close

SpecSend == Init /\ [][NextSend]_vars

\* The parent's router when senders pass acknowledgment callbacks and keys.
NextAck ==
    \/ Open
    \/ BindListening
    \/ \E child \in BOOLEAN, roomId \in RoomInputs : Connect(child, roomId)
    \/ \E c \in ConnIds, roomId \in RoomNames : MatchTarget(c, roomId)
    \/ \E c \in ConnIds : Disconnect(c)
    \/ \E c \in ConnIds, message \in AckMessages : Message(c, message)
    \/ \E roomId \in RoomInputs : addRoomIdsOnSecondInstance(roomId)

SpecAck == Init /\ [][NextAck]_vars

\* The module fetch: 'init' messages of a socket of the parent, and the
\* events of the request, the response and the unpack stream.
NextFetch ==
    \/ Open
    \/ BindListening
    \/ \E child \in BOOLEAN, roomId \in RoomInputs : Connect(child, roomId)
    \/ \E c \in ConnIds : Disconnect(c)
    \/ \E c \in ConnIds, message \in FetchMessages : Message(c, message)
    \/ \E statusCode \in {200, 404} : FetchResponse(statusCode)
    \/ FetchResponseError
    \/ FetchZipDone
    \/ \E parses \in BOOLEAN : FetchReadFile(parses)

SpecFetch == Init /\ [][NextFetch]_vars

\* ------------------------------------------------------------------ claims
\* The uplink is the active subordinate-side link: set and not closed.
LinkActive == socketClient \in DOMAIN uplinks /\ uplinks[socketClient].status # "closed"

\* A step in which the uplink u is closed by one of its demotion handlers.
Demotes(u) ==
    /\ u \in DOMAIN uplinks
    /\ uplinks[u].status # "closed"
    /\ uplinks'[u].status = "closed"

\* C1: after any sequence of connect, disconnect, open, uplink-drop and
\* reconnect-failure events (no close()), whenever the process is in the Hub
\* role (runningMode is parent and the socket.io server is up) and no handler
\* is running, currentServerMode is multi if and only if childServerList is
\* not empty, and single otherwise.
C1_ModeFollowsChildCount ==
    (closes = 0 /\ runningMode = SERVER_MODE_TYPES.parent /\ socketServer) =>
        /\ (currentServerMode = SERVER_MODE_TYPES.multi) <=> (childServerList # {})
        /\ (currentServerMode = SERVER_MODE_TYPES.single) <=> (childServerList = {})

\* C6: a step in which a connecting uplink is closed (its 'reconnect_failed'
\* handler) happens only when the ReconnectionAttempts reconnection attempts
\* have all failed, and it leaves the mode single, the link handle cleared and
\* one more open() under way; while the budget is not used up no step closes
\* the connecting uplink.
C6_ReconnectFailedDemotes ==
    [][\A u \in LinkIds :
        (Demotes(u) /\ uplinks[u].status = "connecting") =>
            /\ uplinks[u].attempts = ReconnectionAttempts
            /\ currentServerMode' = SERVER_MODE_TYPES.single
            /\ socketClient' = Null
            /\ openPending' = openPending + 1]_vars

\* C6 witness: the budget was used up, the uplink is closed, the mode is
\* single, the handle is cleared and the re-invoked open() is under way.
C6_Witness ==
    \E u \in DOMAIN uplinks :
        /\ uplinks[u].status = "closed"
        /\ uplinks[u].attempts = ReconnectionAttempts
        /\ currentServerMode = SERVER_MODE_TYPES.single
        /\ socketClient = Null
        /\ openPending > 0

\* C7: every demotion (a step in which an uplink is closed, whether by
\* 'reconnect_failed' or by 'disconnect') leaves the mode single, the link
\* handle cleared and one more open() under way.
C7_DemotionSetsSingle ==
    [][\A u \in LinkIds :
        Demotes(u) =>
            /\ currentServerMode' = SERVER_MODE_TYPES.single
            /\ socketClient' = Null
            /\ openPending' = openPending + 1]_vars

\* C8: the socket.io server and an active uplink are never both held, and a
\* held handle matches the role: the server with parent, the uplink with child.
C8_OneHandle ==
    /\ ~(socketServer /\ LinkActive)
    /\ socketServer => runningMode = SERVER_MODE_TYPES.parent
    /\ LinkActive => runningMode = SERVER_MODE_TYPES.child

\* C9: masterRoomIds only grows: every room id in it before a step is still
\* in it after the step.
C9_MasterRoomIdsGrow ==
    [][\A r \in Range(masterRoomIds) : r \in Range(masterRoomIds')]_vars

\* C9 witness: room ids collected by the opener, the uplink and the owner
\* have survived a demotion and a close().
C9_Witness ==
    /\ Len(masterRoomIds) >= 2
    /\ closes > 0
    /\ \E u \in DOMAIN uplinks : uplinks[u].status = "closed"

\* The router decided on a message from socket c.
Routed == out.op = "message" /\ out.conn \in DOMAIN conns

\* C2: a message whose mode is single, or whose sender's roomId is in
\* masterRoomIds, is handed to router.handleServerData exactly once and is
\* emitted to no room and to no socket.
C2_AuthoritativeIsLocal ==
    (Routed /\ (\/ out.msg.mode = SERVER_MODE_TYPES.single
                \/ conns[out.conn].roomId \in Range(masterRoomIds))) =>
        /\ out.local = 1
        /\ out.emits = {}
        /\ out.delivered = {}

\* C3: a message whose mode is not single, from a socket that is no child
\* server and whose roomId r is not in masterRoomIds, with
\* clientTargetList[r] = t, reaches the socket t and nothing else: not the
\* local router, no other socket, no room.
C3_ClaimedRoomForwards ==
    (/\ Routed
     /\ out.msg.mode # SERVER_MODE_TYPES.single
     /\ ~conns[out.conn].childServer
     /\ conns[out.conn].roomId \in RoomNames
     /\ conns[out.conn].roomId \notin Range(masterRoomIds)
     /\ clientTargetList[conns[out.conn].roomId] # Undefined) =>
        /\ out.local = 0
        /\ out.emits = {<<"message", clientTargetList[conns[out.conn].roomId]>>}
        /\ out.delivered = {clientTargetList[conns[out.conn].roomId]}

\* C4: the 'disconnect' handler run a second time for a socket changes
\* neither the registry nor the mode, announces 'matching' to no room and
\* does not throw.
C4_DisconnectIdempotent ==
    [][out'.op = "redisconnect" =>
        /\ connectionSet' = connectionSet
        /\ childServerList' = childServerList
        /\ currentServerMode' = currentServerMode
        /\ \A r \in RoomNames : <<"matching", r>> \notin out'.emits
        /\ ~out'.threw]_vars

\* C10: every room with an entry in clientTargetList is in masterRoomIds or
\* is known to a live socket: the roomId of a live socket that is no child
\* server, or one of the roomIds of a live child server.
C10_TargetsAreKnown ==
    \A r \in RoomNames :
        clientTargetList[r] # Undefined =>
            \/ r \in Range(masterRoomIds)
            \/ \E c \in DOMAIN conns :
                  /\ conns[c].live
                  /\ IF conns[c].childServer THEN r \in Range(conns[c].roomIds)
                     ELSE conns[c].roomId = r

\* C5: the first three bytes of the packet are always 1, 0, 0; a payload
\* handed to send() is the packet with the code of this.state as 4th byte
\* (connecting 1, connected 2, lost 3, disconnected 4); setState() with a
\* known name and a socket in this.connections hands the payload to send();
\* setState() with any other name hands nothing to send() and leaves the
\* packet as it was.
C5_PacketCodes ==
    /\ [](SubSeq(packet, 1, 3) = <<1, 0, 0>>)
    /\ [](out.sent # << >> =>
            /\ out.sent = packet
            /\ state = "connecting" => out.sent = <<1, 0, 0, 1>>
            /\ state = "connected" => out.sent = <<1, 0, 0, 2>>
            /\ state = "lost" => out.sent = <<1, 0, 0, 3>>
            /\ state = "disconnected" => out.sent = <<1, 0, 0, 4>>
            /\ state \in {"connecting", "connected", "lost", "disconnected"})
    /\ []((/\ out.op = "setState"
           /\ state \in {"connecting", "connected", "lost", "disconnected"}
           /\ Len(connections) > 0) => out.sent # << >>)
    /\ [][(out'.op = "setState" /\ state' = "other") =>
            (out'.sent = << >> /\ packet' = packet)]_vars

\* C5 witness: setState('lost') handed 1, 0, 0, 3 to send().
C5_Witness ==
    /\ out.op = "setState"
    /\ state = "lost"
    /\ out.sent = <<1, 0, 0, 3>>

\* send() was called by the last handler: by setState() with a packet, or by
\* disconnectHardware().
SendCalled ==
    \/ (out.op = "setState" /\ out.sent # << >>)
    \/ out.op = "disconnectHardware"

\* C11: send() in the child role, or in the parent role with no child server
\* attached, emits the payload on every socket of this.connections and to no
\* room; in the parent role with a child server attached it emits to every
\* room of masterRoomIds and on no socket directly, so that only sockets whose
\* roomId is in masterRoomIds receive it.
C11_SendByRole ==
    SendCalled =>
        IF \/ runningMode = SERVER_MODE_TYPES.child
           \/ (runningMode = SERVER_MODE_TYPES.parent /\ childServerList = {})
        THEN /\ out.emits = {<<"message", c>> : c \in Range(connections)}
             /\ out.delivered \subseteq Range(connections)
        ELSE /\ out.emits = {<<"message", r>> : r \in Range(masterRoomIds)}
             /\ \A c \in out.delivered :
                    /\ ~conns[c].childServer
                    /\ conns[c].roomId \in Range(masterRoomIds)
             /\ \A c \in DOMAIN conns :
                    (/\ conns[c].live
                     /\ ~conns[c].childServer
                     /\ conns[c].roomId \in Range(masterRoomIds) \ {Undefined})
                        => c \in out.delivered

\* C11 witness: with a child server attached the packet went to the room of
\* masterRoomIds and reached the socket in it, and a socket of another room
\* was left out.
C11_Witness ==
    /\ out.op = "setState"
    /\ runningMode = SERVER_MODE_TYPES.parent
    /\ childServerList # {}
    /\ out.emits = {<<"message", "r1">>}
    /\ \E c \in DOMAIN conns :
          conns[c].live /\ ~conns[c].childServer /\ c \notin out.delivered

\* A socket the Server could still reach: a live socket of the socket.io
\* server, or an uplink that is not closed.
LiveSocket(c) ==
    \/ (c \in DOMAIN conns /\ conns[c].live)
    \/ (c \in DOMAIN uplinks /\ uplinks[c].status # "closed")

\* C12: a socket that has disconnected is in neither connectionSet nor
\* this.connections, and so is an uplink closed by a demotion; setState()
\* hands a packet to send() only if this.connections holds a live socket.
C12_DisconnectedNotHeld ==
    /\ \A c \in DOMAIN conns :
          ~conns[c].live => (c \notin connectionSet /\ c \notin Range(connections))
    /\ \A u \in DOMAIN uplinks :
          uplinks[u].status = "closed" => u \notin Range(connections)
    /\ (out.op = "setState" /\ out.sent # << >>) =>
          \E c \in Range(connections) : LiveSocket(c)

\* C13: for a message that came with an acknowledgment callback the handler
\* calls the callback exactly once, with message.key, or with true when the
\* message has no key, whatever the routing outcome and for 'init' messages
\* too.
C13_AckOnce ==
    (Routed /\ out.msg.ack) => out.acked = <<AckKey(out.msg)>>

\* C14: a 'matchTarget' from a socket that is no child server, or with an
\* empty roomId, changes neither clientTargetList nor any socket's roomIds and
\* announces nothing; a 'matchTarget' for room r from child server c leaves r
\* in c's roomIds exactly once, adds nothing else to them, leaves every other
\* socket alone, sets clientTargetList[r] to c (whoever held it before) and
\* announces 'matched' to room r.
C14_ClaimTarget ==
    [][out'.op = "matchTarget" =>
        LET c == out'.conn
            r == out'.room
        IN  IF conns[c].childServer /\ r # Undefined
            THEN /\ clientTargetList' = [clientTargetList EXCEPT ![r] = c]
                 /\ Cardinality({i \in DOMAIN conns'[c].roomIds :
                                    conns'[c].roomIds[i] = r}) = 1
                 /\ Range(conns'[c].roomIds) = Range(conns[c].roomIds) \cup {r}
                 /\ \A d \in DOMAIN conns \ {c} : conns'[d] = conns[d]
                 /\ out'.emits = {<<"matched", r>>}
            ELSE /\ clientTargetList' = clientTargetList
                 /\ conns' = conns
                 /\ out'.emits = {}]_vars

\* C14 witness: two child servers claimed room r1; the later claim holds the
\* entry of clientTargetList and both keep r1 in their roomIds once.
C14_Witness ==
    /\ out.op = "matchTarget"
    /\ out.room = "r1"
    /\ \E c, d \in DOMAIN conns :
          /\ c # d
          /\ out.conn = c
          /\ clientTargetList["r1"] = c
          /\ conns[c].roomIds = <<"r1">>
          /\ conns[d].childServer
          /\ conns[d].roomIds = <<"r1">>

\* C15: a fetch with an empty module name is rejected at once and a fetch
\* with a non-success response is rejected, and neither sends 'show_robot'
\* nor 'startScan' to the router; the two calls are made only after the
\* unpack stream reported 'done', 'show_robot' before 'startScan'; a stream
\* error and a configuration that cannot be read or parsed leave the promise
\* rejected, never resolved.
C15_FetchCommitsNothingPartial ==
    /\ (fetch.status # "none" /\ fetch.name = Undefined) =>
          (fetch.promise = "rejected" /\ fetch.calls = << >>)
    /\ fetch.response \notin {0, 200} =>
          (fetch.promise = "rejected" /\ fetch.calls = << >>)
    /\ fetch.calls # << >> =>
          (fetch.unpacked /\ fetch.calls = <<"show_robot", "startScan">>)
    /\ fetch.streamError => fetch.promise = "rejected"
    /\ fetch.threw => fetch.promise = "rejected"

\* The socket clientTargetList names for room r is a live child server.
LiveTarget(r) ==
    /\ r \in RoomNames
    /\ clientTargetList[r] \in DOMAIN conns
    /\ conns[clientTargetList[r]].live
    /\ conns[clientTargetList[r]].childServer

\* C16: a message whose mode is not single, from a socket that is no child
\* server and whose roomId is not in masterRoomIds, when clientTargetList has
\* no entry for the roomId or the entry names a socket that has disconnected,
\* is dropped: it reaches no socket, is emitted to no room, is not handed to
\* the local router, and the handler does not throw.
C16_NoRouteDrops ==
    (/\ Routed
     /\ out.msg.mode # SERVER_MODE_TYPES.single
     /\ ~conns[out.conn].childServer
     /\ conns[out.conn].roomId \notin Range(masterRoomIds)
     /\ ~LiveTarget(conns[out.conn].roomId)) =>
        /\ out.local = 0
        /\ out.delivered = {}
        /\ \A r \in RoomNames : <<"message", r>> \notin out.emits
        /\ ~out.threw

\* C17: a message whose mode is not single, from a child server, is emitted
\* to every room of that socket's roomIds and to nothing else, reaches only
\* sockets of those rooms, and is not handed to the local router, whatever
\* masterRoomIds holds; with no room claimed it goes nowhere.
C17_RelayFansOut ==
    (/\ Routed
     /\ out.msg.mode # SERVER_MODE_TYPES.single
     /\ conns[out.conn].childServer) =>
        /\ out.local = 0
        /\ out.emits = {<<"message", r>> : r \in Range(conns[out.conn].roomIds)}
        /\ \A c \in out.delivered :
              ~conns[c].childServer /\ conns[c].roomId \in Range(conns[out.conn].roomIds)

\* C18: the handler of a message that is no 'init' message changes none of
\* this.connections, connectionSet, childServerList, the sockets' roomId and
\* roomIds, clientTargetList, masterRoomIds, runningMode and
\* currentServerMode, and the same message from the same socket routed again
\* right after has the same outcome.
C18_RoutingChangesNothing ==
    [][(out'.op = "message" /\ out'.msg.action # "init") =>
        /\ UNCHANGED <<connections, connectionSet, childServerList, conns,
                       clientTargetList, masterRoomIds, runningMode,
                       currentServerMode>>
        /\ (out.op = "message" /\ out.msg = out'.msg /\ out.conn = out'.conn)
              => out' = out]_vars

\* C18 witness: a data message was forwarded to the child server that
\* claimed the sender's room.
C18_Witness ==
    /\ Routed
    /\ out.msg.action = "data"
    /\ out.msg.mode = SERVER_MODE_TYPES.multi
    /\ out.delivered # {}
    /\ \A c \in out.delivered : conns[c].childServer

\* listen() of an open() under way has an outcome to report: the port is
\* free for this process, or one more uplink fits under MaxUplinks.
OpenCanReport ==
    /\ openPending > 0
    /\ (~httpServer \/ Cardinality(DOMAIN uplinks) < MaxUplinks)

\* C19: every demotion re-invokes open() in the same handler; an opened
\* Server that holds neither the socket.io server nor an active uplink always
\* has an open() under way; an open() under way leads to the parent role
\* with the socket.io server built, or to a new uplink; and the open() that
\* finds the port free makes the Server the parent with its socket.io server.
C19_FailoverLive ==
    /\ [][\A u \in LinkIds : Demotes(u) => openPending' = openPending + 1]_vars
    /\ []((lifecycle = "open" /\ ~socketServer /\ ~LinkActive) => openPending > 0)
    /\ OpenCanReport ~>
          ((runningMode = SERVER_MODE_TYPES.parent /\ socketServer) \/ LinkActive)
    /\ [][(~httpServer /\ httpServer') =>
            (runningMode' = SERVER_MODE_TYPES.parent /\ socketServer')]_vars

\* C19 witness: the uplink was lost and the Server has become the parent
\* with its socket.io server.
C19_Witness ==
    /\ closes = 0
    /\ \E u \in DOMAIN uplinks : uplinks[u].status = "closed"
    /\ runningMode = SERVER_MODE_TYPES.parent
    /\ socketServer

\* C20: whenever the Server is the parent with a child server in
\* childServerList and a room in masterRoomIds, this.socketServer is set,
\* also after close() and after close() followed by open(); and setState(),
\* disconnectHardware() and the setState() of the connection handler never
\* throw.
C20_BroadcasterPresent ==
    /\ (/\ runningMode = SERVER_MODE_TYPES.parent
        /\ childServerList # {}
        /\ Len(masterRoomIds) > 0) => socketServer
    /\ out.op \in {"setState", "disconnectHardware", "connection"} => ~out.threw

\* C20 witness: after close() and a new open() a child server is attached
\* and send() went to the rooms of masterRoomIds through the socket.io server.
C20_Witness ==
    /\ closes > 0
    /\ SendCalled
    /\ runningMode = SERVER_MODE_TYPES.parent
    /\ childServerList # {}
    /\ socketServer
    /\ out.emits # {}
    /\ out.emits = {<<"message", r>> : r \in Range(masterRoomIds)}

====
